---- MODULE Spec2Model ----
(***************************************************************************)
(* Model of src/index.js (fastcalendar): the App component's event store,  *)
(* the text-to-event parser parseEvents, the Enter-key handler handleInput *)
(* and the overlap-driven layout values maxOverlaps / dynamicHeight /      *)
(* fontSize.                                                               *)
(*                                                                         *)
(* Text is a sequence of one-character strings.  A Date is its timestamp   *)
(* in minutes (day * 1440 + minute of day); an Invalid Date is NaN.        *)
(***************************************************************************)
EXTENDS Integers, Sequences, FiniteSets, TLC

VARIABLES
  events,     \* useState([]), line 116: the event store
  today,      \* line 120: new Date() of the latest render of App
  now,        \* the wall clock
  console,    \* what the latest parseEvents call reported by console.error
  input,      \* the text e.target.value of the latest Enter key
  before      \* the event store when that Enter key arrived

vars == <<events, today, now, console, input, before>>

(***************************************************************************)
(* Bounds                                                                  *)
(***************************************************************************)
MaxEntries == 2
MaxEvents == 2
MaxTicks == 2
MaxDenseEvents == 7

(***************************************************************************)
(* JavaScript Date and string primitives                                   *)
(***************************************************************************)
NaN == -1
MinutesPerDay == 24 * 60

Digits == {"0", "1", "2", "3", "4", "5", "6", "7", "8", "9"}

DigitValue(c) ==
  CASE c = "0" -> 0 [] c = "1" -> 1 [] c = "2" -> 2 [] c = "3" -> 3
    [] c = "4" -> 4 [] c = "5" -> 5 [] c = "6" -> 6 [] c = "7" -> 7
    [] c = "8" -> 8 [] c = "9" -> 9

\* F(v) with v evaluated once: a local constant of the code
Bind(v, F(_)) == CHOOSE r \in {F(x) : x \in {v}} : TRUE

\* s[i], or the empty string past the end of s
At(s, i) == IF i >= 1 /\ i <= Len(s) THEN s[i] ELSE ""

IsDigit(c) == c \in Digits

IsSpace(c) == c = " "

RECURSIVE SkipSpaces(_, _)
\* \s* : the index of the first non-space character at or after i
SkipSpaces(s, i) == IF IsSpace(At(s, i)) THEN SkipSpaces(s, i + 1) ELSE i

RECURSIVE LastNonSpace(_, _)
LastNonSpace(s, i) ==
  IF i >= 1 /\ IsSpace(s[i]) THEN LastNonSpace(s, i - 1) ELSE i

\* String.prototype.trim
Trim(str) == Bind(str, LAMBDA s : SubSeq(s, SkipSpaces(s, 1), LastNonSpace(s, Len(s))))

RECURSIVE IndexOf(_, _, _)
\* index of the first c at or after i, Len(s) + 1 when there is none
IndexOf(s, c, i) ==
  IF i > Len(s) THEN i
  ELSE IF s[i] = c THEN i ELSE IndexOf(s, c, i + 1)

RECURSIVE Split(_, _)
\* String.prototype.split on a one-character separator
Split(str, c) ==
  Bind(str, LAMBDA s :
  Bind(IndexOf(s, c, 1), LAMBDA k :
    IF k > Len(s) THEN <<s>>
    ELSE <<SubSeq(s, 1, k - 1)>> \o Split(SubSeq(s, k + 1, Len(s)), c)))

\* DateLess with <= written for <
DateLessOrEqual(a, b) == a # NaN /\ b # NaN /\ a <= b

\* Date comparison a < b: false as soon as one side is an Invalid Date
DateLess(a, b) == a # NaN /\ b # NaN /\ a < b

\* Date.prototype.getHours
getHours(d) == IF d = NaN THEN NaN ELSE (d % MinutesPerDay) \div 60

\* end.setDate(end.getDate() + 1)
AddOneDay(d) == IF d = NaN THEN NaN ELSE d + MinutesPerDay

\* midnight of the calendar day of d
StartOfDay(d) == (d \div MinutesPerDay) * MinutesPerDay

(***************************************************************************)
(* The entry grammar, line 129:                                            *)
(*   /^\[?(.*?)\]?\s*(\d{1,2}:\d{2})\s*-\s*(\d{1,2}:\d{2})\s*(am|pm)$/i    *)
(***************************************************************************)

\* (\d{1,2}:\d{2}) at index i: the length of the token, 0 when there is none
TimeTokenLen(s, i) ==
  IF IsDigit(At(s, i)) /\ IsDigit(At(s, i + 1)) /\ At(s, i + 2) = ":"
     /\ IsDigit(At(s, i + 3)) /\ IsDigit(At(s, i + 4))
  THEN 5
  ELSE IF IsDigit(At(s, i)) /\ At(s, i + 1) = ":"
          /\ IsDigit(At(s, i + 2)) /\ IsDigit(At(s, i + 3))
       THEN 4
       ELSE 0

\* (am|pm)$ under the i flag at index i
PeriodAt(s, i) ==
  IF i + 1 = Len(s) /\ At(s, i) \in {"a", "A", "p", "P"} /\ At(s, i + 1) \in {"m", "M"}
  THEN SubSeq(s, i, i + 1)
  ELSE <<>>

\* \]?\s*(\d{1,2}:\d{2})\s*-\s*(\d{1,2}:\d{2})\s*(am|pm)$ tried at index p.
\* Every quantifier of this tail is followed by a character it cannot
\* itself match, so backtracking inside the tail finds nothing more.
TailAt(s, p) ==
  Bind(SkipSpaces(s, IF At(s, p) = "]" THEN p + 1 ELSE p), LAMBDA b :
  Bind(TimeTokenLen(s, b), LAMBDA l1 :
  Bind(SkipSpaces(s, b + l1), LAMBDA c :
  Bind(SkipSpaces(s, c + 1), LAMBDA d :
  Bind(TimeTokenLen(s, d), LAMBDA l2 :
  Bind(SkipSpaces(s, d + l2), LAMBDA e :
    IF l1 > 0 /\ At(s, c) = "-" /\ l2 > 0 /\ PeriodAt(s, e) # <<>>
    THEN [ok |-> TRUE,
          startTime |-> SubSeq(s, b, b + l1 - 1),
          endTime |-> SubSeq(s, d, d + l2 - 1),
          period |-> PeriodAt(s, e)]
    ELSE [ok |-> FALSE, startTime |-> <<>>, endTime |-> <<>>, period |-> <<>>]))))))

\* the lazy group (.*?) starting at index from: the least index at which
\* the tail matches, 0 when no index does
TitleEnd(s, from) ==
  Bind({p \in from..(Len(s) + 1) : TailAt(s, p).ok}, LAMBDA ps :
    IF ps = {} THEN 0 ELSE CHOOSE p \in ps : \A q \in ps : p <= q)

\* eventStr.match(...): ok is FALSE for a null result.  The optional '[' is
\* tried taken first, and a match without it implies a match with it.
Match(eventStr) ==
  Bind(eventStr, LAMBDA s :
  Bind(IF At(s, 1) = "[" THEN 2 ELSE 1, LAMBDA from :
  Bind(TitleEnd(s, from), LAMBDA p :
    IF p = 0
    THEN [ok |-> FALSE, title |-> <<>>, startTime |-> <<>>,
          endTime |-> <<>>, period |-> <<>>]
    ELSE Bind(TailAt(s, p), LAMBDA tail :
           [ok |-> TRUE, title |-> SubSeq(s, from, p - 1),
            startTime |-> tail.startTime,
            endTime |-> tail.endTime,
            period |-> tail.period]))))

(***************************************************************************)
(* date-fns parse(`${time} ${period}`, 'h:mm a', referenceDate)            *)
(***************************************************************************)

\* token h, pattern /^(1[0-2]|0?\d)/ : the number of characters it takes
\* from an hour text of one or two digits
HourTokenLen(hh) ==
  IF Len(hh) = 2 /\ ((hh[1] = "1" /\ hh[2] \in {"0", "1", "2"}) \/ hh[1] = "0")
  THEN 2 ELSE 1

RECURSIVE Number(_)
Number(ds) ==
  IF ds = <<>> THEN 0
  ELSE 10 * Number(SubSeq(ds, 1, Len(ds) - 1)) + DigitValue(ds[Len(ds)])

\* the 24-hour hour set by the a and h tokens (a first, by priority)
Hour24(h, period) ==
  LET isPM == period[1] \in {"p", "P"}
  IN  IF isPM /\ h < 12 THEN h + 12
      ELSE IF ~isPM /\ h = 12 THEN 0 ELSE h

\* parse of a time text matched by (\d{1,2}:\d{2}) and a period matched by
\* (am|pm); the date comes from the reference date, the seconds are zeroed.
\* A value that fails a token's validation gives an Invalid Date, no throw.
parse(time, period, referenceDate) ==
  Bind(time, LAMBDA t :
  Bind(IndexOf(t, ":", 1), LAMBDA colon :
  Bind(SubSeq(t, 1, colon - 1), LAMBDA hh :
  Bind(Number(SubSeq(hh, 1, HourTokenLen(hh))), LAMBDA h :
  Bind(Number(SubSeq(t, colon + 1, Len(t))), LAMBDA m :
    IF HourTokenLen(hh) # Len(hh) THEN NaN
    ELSE IF ~(h >= 1 /\ h <= 12) THEN NaN
    ELSE IF ~(m >= 0 /\ m <= 59) THEN NaN
    ELSE StartOfDay(referenceDate) + Hour24(h, period) * 60 + m)))))

(***************************************************************************)
(* parseEvents, lines 123-143                                              *)
(***************************************************************************)

\* ParseEntry throwing on an Invalid Date: the entry is dropped and reported
ParseEntryStrict(eventStr, ref) ==
  Bind(Match(eventStr), LAMBDA match :
    IF ~match.ok
    THEN [ok |-> FALSE, diag |-> TRUE,
          event |-> [title |-> <<>>, start |-> NaN, end |-> NaN]]
    ELSE Bind(parse(match.startTime, match.period, ref), LAMBDA start :
         Bind(parse(match.endTime, match.period, ref), LAMBDA end :
           IF start = NaN \/ end = NaN
           THEN [ok |-> FALSE, diag |-> TRUE,
                 event |-> [title |-> <<>>, start |-> NaN, end |-> NaN]]
           ELSE [ok |-> TRUE, diag |-> FALSE,
                 event |-> [title |-> Trim(match.title), start |-> start,
                            end |-> IF DateLess(end, start) THEN AddOneDay(end) ELSE end]])))

\* ParseEntry returning null for an empty entry before the try block
ParseEntrySilentEmpty(eventStr, ref) ==
  Bind(Match(eventStr), LAMBDA match :
    IF ~match.ok
    THEN [ok |-> FALSE, diag |-> eventStr # <<>>,
          event |-> [title |-> <<>>, start |-> NaN, end |-> NaN]]
    ELSE Bind(parse(match.startTime, match.period, ref), LAMBDA start :
         Bind(parse(match.endTime, match.period, ref), LAMBDA end :
           [ok |-> TRUE, diag |-> FALSE,
            event |-> [title |-> Trim(match.title), start |-> start,
                       end |-> IF DateLess(end, start) THEN AddOneDay(end) ELSE end]])))

\* the callback of eventStrings.map, lines 127-140: the event of one entry.
\* ok is FALSE for the null of the catch branch; diag is TRUE when the
\* catch branch ran console.error.
ParseEntry(eventStr, ref) ==
  Bind(Match(eventStr), LAMBDA match :
    IF ~match.ok
    THEN [ok |-> FALSE, diag |-> TRUE,
          event |-> [title |-> <<>>, start |-> NaN, end |-> NaN]]
    ELSE Bind(parse(match.startTime, match.period, ref), LAMBDA start :
         Bind(parse(match.endTime, match.period, ref), LAMBDA end :
           [ok |-> TRUE, diag |-> FALSE,
            event |-> [title |-> Trim(match.title), start |-> start,
                       end |-> IF DateLess(end, start) THEN AddOneDay(end) ELSE end]])))

\* input.split(';').map(str => str.trim())
EventStrings(text) ==
  Bind(Split(text, ";"), LAMBDA parts : [i \in 1..Len(parts) |-> Trim(parts[i])])

\* the results of the map callback, one per entry
MapEntries(strs, ref) ==
  Bind(strs, LAMBDA ss : [i \in 1..Len(ss) |-> ParseEntry(ss[i], ref) @@ [str |-> ss[i]]])

\* .map(...).filter(Boolean): the events of the entries, nulls removed
NewEvents(strs, ref) ==
  Bind(SelectSeq(MapEntries(strs, ref), LAMBDA r : r.ok), LAMBDA kept :
    [k \in 1..Len(kept) |-> kept[k].event])

\* the entries reported by console.error, in order
Diagnostics(strs, ref) ==
  Bind(SelectSeq(MapEntries(strs, ref), LAMBDA r : r.diag), LAMBDA failed :
    [k \in 1..Len(failed) |-> failed[k].str])

(***************************************************************************)
(* Layout values, lines 153-168                                            *)
(***************************************************************************)

\* a <= b on numbers: false as soon as one side is NaN
NumLeq(a, b) == a # NaN /\ b # NaN /\ a <= b

RECURSIVE CountHoursExclusive(_, _, _)
\* CountHours with the loop test h < endHour
CountHoursExclusive(timeSlots, h, endHour) ==
  IF NumLeq(h, endHour) /\ h # endHour
  THEN CountHoursExclusive([timeSlots EXCEPT ![h] = @ + 1], h + 1, endHour)
  ELSE timeSlots

RECURSIVE CountHours(_, _, _)
\* for (let h = startHour; h <= endHour; h++) timeSlots[h] = (timeSlots[h] || 0) + 1
CountHours(timeSlots, h, endHour) ==
  IF NumLeq(h, endHour)
  THEN CountHours([timeSlots EXCEPT ![h] = @ + 1], h + 1, endHour)
  ELSE timeSlots

RECURSIVE TimeSlotsReset(_, _)
\* TimeSlots with the timeSlots object created anew for each event
TimeSlotsReset(evs, timeSlots) ==
  IF evs = <<>> THEN timeSlots
  ELSE TimeSlotsReset(Tail(evs),
                      CountHours([h \in 0..23 |-> 0],
                                 getHours(Head(evs).start), getHours(Head(evs).end)))

RECURSIVE TimeSlots(_, _)
\* events.forEach(...) over a timeSlots object; an absent key reads as 0
TimeSlots(evs, timeSlots) ==
  IF evs = <<>> THEN timeSlots
  ELSE TimeSlots(Tail(evs),
                 CountHours(timeSlots, getHours(Head(evs).start), getHours(Head(evs).end)))

Max(S) == CHOOSE x \in S : \A y \in S : y <= x

\* Math.max(...Object.values(timeSlots), 0)
maxOverlaps(evs) ==
  LET timeSlots == TimeSlots(evs, [h \in 0..23 |-> 0])
  IN  Max({timeSlots[h] : h \in 0..23} \cup {0})

baseHeightPerHour == 200
extraHeightPerOverlap == 50

dynamicHeight(evs) == 24 * baseHeightPerHour + maxOverlaps(evs) * extraHeightPerOverlap

\* Math.max(0.7, 1 - maxOverlaps * 0.05), in hundredths
fontSize(evs) ==
  LET f == 100 - maxOverlaps(evs) * 5 IN IF f > 70 THEN f ELSE 70

(***************************************************************************)
(* Texts typed into the input field                                        *)
(***************************************************************************)
Semi == <<";">>
Sp == <<" ">>
Dash == <<"-">>
T9 == <<"9", ":", "0", "0">>
T10 == <<"1", "0", ":", "0", "0">>
T11 == <<"1", "1", ":", "0", "0">>
T12 == <<"1", "2", ":", "0", "0">>
T1 == <<"1", ":", "0", "0">>
T2 == <<"2", ":", "0", "0">>
T3 == <<"3", ":", "0", "0">>
T330 == <<"0", "3", ":", "3", "0">>
T13 == <<"1", "3", ":", "0", "0">>
T960 == <<"9", ":", "6", "0">>
am == <<"a", "m">>
pm == <<"p", "m">>
PM == <<"P", "M">>

Meeting == <<"A">> \o Sp \o T9 \o Dash \o T10 \o Sp \o am
Bracketed == <<"[", "B", "]">> \o Sp \o T2 \o Sp \o Dash \o Sp \o T330 \o Sp \o PM
Late == <<"L">> \o Sp \o T3 \o Dash \o T330 \o Sp \o pm
SameTime == Sp \o <<"S">> \o Sp \o T9 \o Dash \o T9 \o am
NightShift == <<"N">> \o Sp \o T11 \o Dash \o T2 \o Sp \o pm
BadHour == <<"H">> \o Sp \o T13 \o Dash \o T2 \o Sp \o pm
BadMinute == <<"M">> \o Sp \o T9 \o Dash \o T960 \o Sp \o am
BadEntry == <<"B", "a", "d">>
Untitled == T12 \o Dash \o T1 \o Sp \o am
Empty == <<>>

EntryPool == {Meeting, Bracketed, SameTime, NightShift, BadHour, BadMinute,
              BadEntry, Untitled, Empty}

DensePool == {Bracketed, Late, NightShift, BadHour}

RECURSIVE Join(_)
\* the entries written one after the other with ';' between them
Join(entries) ==
  IF Len(entries) = 1 THEN entries[1]
  ELSE entries[1] \o Semi \o Join(Tail(entries))

\* the entries that stand next to others in one submission
SiblingPool == {Meeting, BadMinute, BadEntry, Empty}

\* the submissions of the model: one entry of a pool, or 2..n sibling
\* entries, or blank text
Texts(pool, n) ==
  {Join(es) : es \in [1..1 -> pool] \cup UNION {[1..k -> SiblingPool] : k \in 2..n}}
    \cup {Sp \o Sp}

(***************************************************************************)
(* The component                                                           *)
(***************************************************************************)
\* the values the wall clock takes
Clock == {k * (MinutesPerDay \div 2) : k \in 0..MaxTicks}

SpecTexts == Texts(EntryPool, MaxEntries)

DenseTexts == Texts(DensePool, 1)

\* lines 125-141 for every text and reference date of the model, evaluated
\* once: newEvents, and the entries handed to console.error
Parsed ==
  [text \in SpecTexts \cup DenseTexts |->
    [ref \in Clock |->
      Bind(EventStrings(text), LAMBDA eventStrings :
        [newEvents |-> NewEvents(eventStrings, ref),
         errors |-> Diagnostics(eventStrings, ref)])]]

Init ==
  /\ events = <<>>
  /\ now = 0
  /\ today = 0
  /\ console = <<>>
  /\ input = <<>>
  /\ before = <<>>

\* the wall clock advances by half a day
Tick ==
  /\ now + MinutesPerDay \div 2 \in Clock
  /\ now' = now + MinutesPerDay \div 2
  /\ UNCHANGED <<events, today, console, input, before>>

\* ThemeToggle onClick, line 234, or LockButton onClick, line 242: the
\* state change re-renders App, which evaluates line 120 again.  The flags
\* darkMode and lockedIn are read by styling only and are not modelled.
Rerender ==
  /\ today' = now
  /\ UNCHANGED <<events, now, console, input, before>>

\* parseEvents with setEvents(newEvents): the store is replaced
parseEventsReplace(text, maxEvents) ==
  IF Trim(text) = <<>>
  THEN /\ console' = <<>>
       /\ UNCHANGED <<events, today>>
  ELSE LET newEvents == Parsed[text][today].newEvents
       IN  /\ Len(events) + Len(newEvents) <= maxEvents
           /\ events' = newEvents
           /\ console' = Parsed[text][today].errors
           /\ today' = now

\* parseEvents(text), lines 123-143, with the re-render that setEvents causes.
\* maxEvents bounds the store of the model: a submission that would pass it
\* is not taken.
parseEvents(text, maxEvents) ==
  IF Trim(text) = <<>>
  THEN /\ console' = <<>>
       /\ UNCHANGED <<events, today>>
  ELSE LET newEvents == Parsed[text][today].newEvents
       IN  /\ Len(events) + Len(newEvents) <= maxEvents
           /\ events' = events \o newEvents
           /\ console' = Parsed[text][today].errors
           /\ today' = now

\* handleInput on the Enter key, lines 145-150, the input field holding text
handleInput(texts, maxEvents) ==
  \E text \in texts :
    /\ parseEvents(text, maxEvents)
    /\ input' = text
    /\ before' = events
    /\ UNCHANGED now

Next ==
  \/ Tick
  \/ Rerender
  \/ handleInput(SpecTexts, MaxEvents)

Spec == Init /\ [][Next]_vars

\* the same component fed a narrow choice of entries, to fill the store
NextDense == handleInput(DenseTexts, MaxDenseEvents)

SpecDense == Init /\ [][NextDense]_vars

(***************************************************************************)
(* Vocabulary of the properties                                            *)
(***************************************************************************)

IsPrefix(s, t) == Len(s) <= Len(t) /\ SubSeq(t, 1, Len(s)) = s

\* the events the latest submission appended
Appended == SubSeq(events, Len(before) + 1, Len(events))

Count(seq, x) == Cardinality({i \in 1..Len(seq) : seq[i] = x})

\* the time of day, in minutes, that a clock text h:mm names in the 12-hour
\* format under a designator; NaN when the hour is outside 1..12 or the
\* minute outside 00..59
ClockMinutes(time, period) ==
  LET colon == IndexOf(time, ":", 1)
      h == Number(SubSeq(time, 1, colon - 1))
      m == Number(SubSeq(time, colon + 1, Len(time)))
      pmHalf == period \in {<<"p", "m">>, <<"P", "M">>, <<"p", "M">>, <<"P", "m">>}
  IN  IF h \in 1..12 /\ m \in 0..59
      THEN ((h % 12) + (IF pmHalf THEN 12 ELSE 0)) * 60 + m
      ELSE NaN

\* what the grammar says of one trimmed entry
EntryFact(str) ==
  Bind(Match(str), LAMBDA match :
    [str |-> str,
     matches |-> match.ok,
     title |-> Trim(match.title),
     startClock |-> IF match.ok THEN ClockMinutes(match.startTime, match.period) ELSE NaN,
     endClock |-> IF match.ok THEN ClockMinutes(match.endTime, match.period) ELSE NaN])

\* the entries of every text of the model, evaluated once; a text that
\* trims to empty has no entries
EntryFacts ==
  [text \in SpecTexts \cup DenseTexts \cup {<<>>} |->
    IF Trim(text) = <<>> THEN <<>>
    ELSE Bind(EventStrings(text), LAMBDA strs :
           [i \in 1..Len(strs) |-> EntryFact(strs[i])])]

Matching(text) == SelectSeq(EntryFacts[text], LAMBDA f : f.matches)

Resolves(f) == f.matches /\ f.startClock # NaN /\ f.endClock # NaN

ValidDate(d) == d # NaN

\* the event runs through some minute of hour h of some day
SpansHour(e, h) ==
  /\ ValidDate(e.start) /\ ValidDate(e.end)
  /\ \E day \in {e.start \div MinutesPerDay, e.end \div MinutesPerDay} :
       /\ e.start <= day * MinutesPerDay + h * 60 + 59
       /\ day * MinutesPerDay + h * 60 <= e.end

\* the events whose inclusive [startHour, endHour] range contains h
InHourRange(evs, h) ==
  {i \in 1..Len(evs) :
     /\ ValidDate(evs[i].start) /\ ValidDate(evs[i].end)
     /\ (evs[i].start % MinutesPerDay) \div 60 <= h
     /\ h <= (evs[i].end % MinutesPerDay) \div 60}

(***************************************************************************)
(* Properties                                                              *)
(***************************************************************************)

\* C1: every event held in the store has a valid start and a valid end and
\* end strictly later than start.
C1_EndAfterStart ==
  \A i \in 1..Len(events) :
    /\ ValidDate(events[i].start)
    /\ ValidDate(events[i].end)
    /\ events[i].end > events[i].start

\* C2: an entry that matches the grammar but whose start or end clock time
\* is no valid time of day is dropped: the latest submission appended one
\* event per entry that matches and resolves, and none for the others, and
\* reported each unresolvable entry by a diagnostic.
C2_UnresolvableDropped ==
  LET facts == EntryFacts[input] IN
  /\ Len(Appended) = Cardinality({i \in 1..Len(facts) : Resolves(facts[i])})
  /\ \A i \in 1..Len(facts) :
       facts[i].matches /\ ~Resolves(facts[i]) => Count(console, facts[i].str) >= 1

\* C3: the store after a submission is the store before it followed by
\* exactly one event per entry that matches the grammar, in the order of the
\* entries; entries that fail the grammar add nothing, nothing is
\* deduplicated, and the store is unchanged when no entry matches.
C3_OnePerMatchingEntry ==
  LET matching == Matching(input) IN
  /\ IsPrefix(before, events)
  /\ Len(Appended) = Len(matching)
  /\ \A k \in 1..Len(matching) : Appended[k].title = matching[k].title
  /\ (matching = <<>> => events = before)

\* C3 witness: a submission of one matching and one failing entry added
\* exactly one event, equal to an event already stored.
C3_Witness ==
  /\ Len(EntryFacts[input]) = 2
  /\ Len(Matching(input)) = 1
  /\ Len(before) >= 1
  /\ Len(events) = Len(before) + 1
  /\ \E i \in 1..Len(before) : before[i] = events[Len(events)]

\* C4: an event created by a submission starts on the calendar date of the
\* wall clock at that submission.
C4_AnchoredAtSubmission ==
  [][\A i \in (Len(events) + 1)..Len(events') :
       ValidDate(events'[i].start) => StartOfDay(events'[i].start) = StartOfDay(now)]_vars

\* C5: for every accepted entry (it matches the grammar and both clock
\* times resolve) start is on the anchor date, the date the parser resolved
\* against, at the entry's start clock time; end is at the entry's end clock
\* time, one calendar day after the anchor date if the end clock time is
\* before the start clock time and on the anchor date otherwise.
C5_MidnightRollover ==
  [][events' # events =>
       LET matching == Matching(input')
           anchor == StartOfDay(today)
       IN  \A k \in 1..Len(matching) :
             Resolves(matching[k]) =>
               LET e == events'[Len(events) + k]
                   s == matching[k].startClock
                   en == matching[k].endClock
               IN  /\ e.start = anchor + s
                   /\ e.end = IF en < s THEN anchor + MinutesPerDay + en
                                        ELSE anchor + en]_vars

\* C5 witness: the store holds an event rolled over to the next day, an
\* event with equal start and end, and the anchor date is not day 0.
C5_Witness ==
  /\ \E i \in 1..Len(events) :
       /\ ValidDate(events[i].start) /\ ValidDate(events[i].end)
       /\ StartOfDay(events[i].end) = StartOfDay(events[i].start) + MinutesPerDay
       /\ StartOfDay(events[i].start) > 0
  /\ \E i \in 1..Len(events) :
       ValidDate(events[i].start) /\ events[i].end = events[i].start

\* C6 as stated: an empty entry adds no event and emits no diagnostic, and a
\* submission that trims to empty leaves the store unchanged and emits none.
C6_EmptySilent ==
  /\ Count(console, <<>>) = 0
  /\ Len(Appended) <= Cardinality({i \in 1..Len(EntryFacts[input]) :
                                     EntryFacts[input][i].str # <<>>})
  /\ (Trim(input) = <<>> => events = before /\ console = <<>>)

\* C6 amended: an empty entry of a submission that does not trim to empty
\* adds no event and emits exactly one diagnostic; a submission whose whole
\* text trims to empty leaves the store unchanged and emits no diagnostic.
C6_EmptyReported ==
  /\ Trim(input) # <<>> =>
       /\ Count(console, <<>>) = Count(EventStrings(input), <<>>)
       /\ Len(Appended) <= Len(EventStrings(input)) - Count(EventStrings(input), <<>>)
  /\ Trim(input) = <<>> => events = before /\ console = <<>>

\* C6 witness: a submission with an empty entry next to a matching one.
C6_Witness ==
  /\ Trim(input) # <<>>
  /\ Count(EventStrings(input), <<>>) = 1
  /\ Len(Appended) = 1
  /\ console = <<(<<>>)>>

\* C7: the store is append-only: every step leaves the earlier content a
\* prefix of the later content.
C7_AppendOnly == [][IsPrefix(events, events')]_vars

\* C7 witness: the store grew in two different submissions.
C7_Witness == Len(before) >= 1 /\ Len(events) > Len(before) /\ Len(events) = MaxEvents

\* C8: if k stored events each span hour of day h, rolled-over events
\* included, then maxOverlap >= k.
C8_PeakSimultaneous ==
  \A h \in 0..23 :
    maxOverlaps(events) >= Cardinality({i \in 1..Len(events) : SpansHour(events[i], h)})

\* C9: maxOverlap is the largest number, over the hours of day, of events
\* whose inclusive [startHour, endHour] range contains the hour;
\* pixelHeight = 24*200 + 50*maxOverlap; fontScale (in hundredths) is
\* max(70, 100 - 5*maxOverlap) and at least 70; the empty store gives
\* 0, 4800 and 100.
C9_LayoutFormula ==
  LET m == Max({Cardinality(InHourRange(events, h)) : h \in 0..23})
  IN  /\ maxOverlaps(events) = m
      /\ dynamicHeight(events) = 4800 + 50 * m
      /\ fontSize(events) = Max({70, 100 - 5 * m})
      /\ fontSize(events) >= 70
      /\ (events = <<>> =>
            maxOverlaps(events) = 0 /\ dynamicHeight(events) = 4800 /\ fontSize(events) = 100)

\* C9 witness: seven events share an hour, where the floor of fontScale
\* applies, and they do not all have the same hour range.
C9_Witness ==
  /\ Max({Cardinality(InHourRange(events, h)) : h \in 0..23}) = 7
  /\ fontSize(events) = 70
  /\ \E i, j \in 1..Len(events) : getHours(events[i].start) < getHours(events[j].start)

\* C10: a submission never lowers maxOverlap, never lowers pixelHeight and
\* never raises fontScale.
C10_Monotone ==
  [][/\ maxOverlaps(events') >= maxOverlaps(events)
     /\ dynamicHeight(events') >= dynamicHeight(events)
     /\ fontSize(events') <= fontSize(events)]_vars

\* C10 witness: a submission to a non-empty store raised maxOverlap.
C10_Witness ==
  /\ Len(before) >= 1
  /\ maxOverlaps(events) > maxOverlaps(before)
  /\ fontSize(events) < fontSize(before)

====
